---- MODULE Spec2Model ----
(***************************************************************************)
(* Model of the semi-automatic generator of impl-trait-for-tuples          *)
(* (src/src/semi_automatic.rs), its entry point (src/src/lib.rs) and the   *)
(* shared generics helper (src/src/utils.rs).                              *)
(*                                                                         *)
(* Syntax trees are records tagged by `kind`; a TokenStream is a sequence  *)
(* of such records.  An identifier is a tuple: <<name>> for an identifier  *)
(* written by the user and <<"TupleElement", i>> for a generated one.      *)
(***************************************************************************)
EXTENDS Integers, Sequences, FiniteSets, TLC

VARIABLES pc, trait_impl, count, tuple_elements, placeholder_ident, i, res,
          passes, result, output

vars == <<pc, trait_impl, count, tuple_elements, placeholder_ident, i, res,
          passes, result, output>>

(***************************************************************************)
(* Bounds of the model.                                                    *)
(***************************************************************************)
MaxCount == 4

MaxTail == 1

(***************************************************************************)
(* Identifiers.                                                            *)
(***************************************************************************)
Placeholder == <<"Tuple">>

Counter == <<"counter">>

Function == <<"function">>

Method == <<"method">>

IsTupleElement(ident) == Len(ident) = 2 /\ ident[1] = "TupleElement"

generate_tuple_element_ident(num) == <<"TupleElement", num>>

\* (0usize..count).map(generate_tuple_element_ident).collect()
TupleElements(n) == [k \in 1..n |-> generate_tuple_element_ident(k - 1)]

(***************************************************************************)
(* Expressions and statements a repetition body is drawn from.             *)
(***************************************************************************)
Path(segs) == [kind |-> "Path", segs |-> segs]

MethodCall(receiver, args) ==
    [kind |-> "MethodCall", receiver |-> receiver, method |-> Method, args |-> args]

Call(func, args) == [kind |-> "Call", func |-> func, args |-> args]

\* parse_quote!( self.#index )
SelfField(index) == [kind |-> "Field", base |-> <<"self">>, index |-> index]

StmtExpr(e) == [kind |-> "StmtExpr", expr |-> e]

StmtSemi(e) == [kind |-> "StmtSemi", expr |-> e]

Comma == [kind |-> "Comma"]

Atoms == { Path(<<Placeholder>>), Path(<<Counter>>), Path(<<Placeholder, Function>>) }

Receivers == { Path(<<Placeholder>>), Path(<<Counter>>) }

\* method calls and calls on atoms
Exprs1 == { MethodCall(r, <<>>) : r \in Atoms }
          \cup { MethodCall(r, <<a>>) : r \in Receivers, a \in Atoms }
          \cup { Call(Path(<<Placeholder, Function>>), <<a>>) : a \in Atoms }

\* calls chained on, or given as argument to, a method call
Exprs2 == { MethodCall(MethodCall(r, <<>>), <<>>) : r \in Receivers }
          \cup { MethodCall(r, << MethodCall(a, <<>>) >>) : r \in Receivers, a \in Receivers }
          \cup { Call(Path(<<Placeholder, Function>>), << MethodCall(Path(<<Placeholder>>), <<a>>) >>) :
                    a \in Receivers }

HeadStmts == { StmtExpr(e) : e \in Atoms \cup Exprs1 \cup Exprs2 }
             \cup { StmtSemi(e) : e \in { MethodCall(r, <<>>) : r \in Receivers } }

TailStmts == { StmtSemi(Path(<<Placeholder>>)), StmtSemi(Path(<<Counter>>)) }

RECURSIVE Tails(_)
Tails(n) == IF n = 0 THEN { <<>> }
            ELSE Tails(n - 1) \cup { Append(t, s) : t \in Tails(n - 1), s \in TailStmts }

Bodies == { <<>> } \cup { <<h>> \o t : h \in HeadStmts, t \in Tails(MaxTail) }

(***************************************************************************)
(* ReplaceTuplePlaceholder: the folder of one expansion copy.              *)
(***************************************************************************)
ReplaceTuplePlaceholder(search, replace, use_self, index) ==
    [search |-> search, replace |-> replace, use_self |-> use_self, index |-> index]

\* Path::is_ident: a single segment equal to the identifier
is_ident(path, ident) == Len(path.segs) = 1 /\ path.segs[1] = ident

\* a fold that leaves every identifier as it is
fold_ident_keep(self, ident) == ident

fold_ident(self, ident) == IF ident = self.search THEN self.replace ELSE ident

RECURSIVE fold_expr(_, _)
\* fold::fold_expr_method_call: receiver, method and arguments are folded
fold_expr_method_call(self, call) ==
    [call EXCEPT !.receiver = fold_expr(self, call.receiver),
                 !.method = fold_ident(self, call.method),
                 !.args = [k \in 1..Len(call.args) |-> fold_expr(self, call.args[k])]]

\* fold::fold_expr: the default traversal, by kind of expression
default_fold_expr(self, expr) ==
    CASE expr.kind = "Path" ->
            [expr EXCEPT !.segs = [k \in 1..Len(expr.segs) |-> fold_ident(self, expr.segs[k])]]
      [] expr.kind = "MethodCall" -> fold_expr_method_call(self, expr)
      [] expr.kind = "Call" ->
            [expr EXCEPT !.func = fold_expr(self, expr.func),
                         !.args = [k \in 1..Len(expr.args) |-> fold_expr(self, expr.args[k])]]
      [] expr.kind = "Field" -> expr

fold_expr(self, expr) ==
    IF expr.kind = "MethodCall" /\ self.use_self
    THEN IF expr.receiver.kind = "Path" /\ is_ident(expr.receiver, self.search)
         THEN [expr EXCEPT !.receiver = SelfField(self.index)]
         ELSE fold_expr_method_call(self, expr)
    ELSE default_fold_expr(self, expr)

\* fold::fold_stmt with the folder above
replace_ident_in_stmt(search, replace, use_self, index, stmt) ==
    [stmt EXCEPT !.expr =
        fold_expr(ReplaceTuplePlaceholder(search, replace, use_self, index), stmt.expr)]

(***************************************************************************)
(* TupleRepetition::expand                                                 *)
(***************************************************************************)
TupleRepetition(stmts, comma_token) == [stmts |-> stmts, comma_token |-> comma_token]

\* the comma put between the copies instead of after each copy
ExpandIteration_comma_between(self, tuple_placeholder_ident, tuple, use_self, index) ==
    (IF self.comma_token /\ index > 0 THEN <<Comma>> ELSE <<>>)
    \o [k \in 1..Len(self.stmts) |->
        replace_ident_in_stmt(tuple_placeholder_ident, tuple, use_self, index, self.stmts[k])]

\* one iteration of the loop over tuples.iter().enumerate()
ExpandIteration(self, tuple_placeholder_ident, tuple, use_self, index) ==
    [k \in 1..Len(self.stmts) |->
        replace_ident_in_stmt(tuple_placeholder_ident, tuple, use_self, index, self.stmts[k])]
    \o (IF self.comma_token THEN <<Comma>> ELSE <<>>)

RECURSIVE ExpandUpTo(_, _, _, _, _)
ExpandUpTo(self, tuple_placeholder_ident, tuples, use_self, n) ==
    IF n = 0 THEN <<>>
    ELSE ExpandUpTo(self, tuple_placeholder_ident, tuples, use_self, n - 1)
         \o ExpandIteration(self, tuple_placeholder_ident, tuples[n], use_self, n - 1)

TupleRepetition_expand(self, tuple_placeholder_ident, tuples, use_self) ==
    ExpandUpTo(self, tuple_placeholder_ident, tuples, use_self, Len(tuples))

(***************************************************************************)
(* The for_tuples! macro: parsing and expansion.                           *)
(*                                                                         *)
(* The tokens of a macro invocation are a record: `path` is the name of    *)
(* the macro, `first` the token the body starts with ("type", "paren",     *)
(* "pound" or "other"), `wellformed` tells whether the rest of the body    *)
(* parses, `stmts` and `comma` are the statements and the optional comma   *)
(* of the repetition, `span` locates the invocation.                       *)
(***************************************************************************)
Macro(path, first, wellformed, stmts, comma, span) ==
    [path |-> path, first |-> first, wellformed |-> wellformed,
     stmts |-> stmts, comma |-> comma, span |-> span]

Error_new(span, message) == << [span |-> span, message |-> message] >>

Ok(value) == [ok |-> TRUE, value |-> value]

Err(error) == [ok |-> FALSE, error |-> error]

\* impl Parse for ForTuplesMacro
ForTuplesMacro_parse(input) ==
    IF input.first \notin {"type", "paren", "pound"}
    THEN Err(Error_new(input.span, "expected one of: type, parentheses, #"))
    ELSE IF ~input.wellformed
    THEN Err(Error_new(input.span, "unexpected token"))
    ELSE Ok([variant |-> CASE input.first = "type" -> "Item"
                           [] input.first = "paren" -> "StmtParenthesized"
                           [] input.first = "pound" -> "Stmt",
             tuple_repetition |-> TupleRepetition(input.stmts, input.comma)])

None == [some |-> FALSE]

Some(value) == [some |-> TRUE, value |-> value]

\* .map(Some)
MapSome(parsed) == IF parsed.ok THEN Ok(Some(parsed.value)) ELSE parsed

ForTuplesMacro_try_from(macro_item) ==
    IF macro_item.path # "for_tuples"
    THEN Ok(None)
    ELSE MapSome(ForTuplesMacro_parse(macro_item))

\* the tokens around the repetition, by variant of the macro
Surround(variant, repetition) ==
    CASE variant = "Item" -> << [kind |-> "TypeItem", group |-> repetition] >>
      [] variant = "StmtParenthesized" -> << [kind |-> "Paren", group |-> repetition] >>
      [] variant = "Stmt" -> repetition

ForTuplesMacro_expand(self, tuple_placeholder_ident, tuples, use_self) ==
    Surround(self.variant,
             TupleRepetition_expand(self.tuple_repetition, tuple_placeholder_ident,
                                    tuples, use_self))

Verbatim(tokens) == [kind |-> "Verbatim", tokens |-> tokens]

(***************************************************************************)
(* Generics.                                                               *)
(***************************************************************************)
\* crate::utils::add_tuple_element_generics
BoundedParams(elements, bounds) ==
    [k \in 1..Len(elements) |-> [ident |-> elements[k], bounds |-> <<bounds>>]]

add_tuple_element_generics(elements, bounds, generics) ==
    IF \E t \in 1..Len(generics.params) :
          \E t2 \in 1..Len(elements) : elements[t2] = generics.params[t].ident
    THEN [generics EXCEPT !.where_clause = @ \o BoundedParams(elements, bounds)]
    ELSE [generics EXCEPT !.params = @ \o BoundedParams(elements, bounds)]

add_tuple_elements_generics(tuples, impl) ==
    IF ~impl.trait_.some
    THEN Err(Error_new("trait_impl",
                       "The semi-automatic implementation is required to implement a trait!"))
    ELSE Ok([impl EXCEPT !.generics =
                add_tuple_element_generics(tuples, impl.trait_.value, impl.generics)])

(***************************************************************************)
(* ToTupleImplementation: the fold of the template for one arity.          *)
(* A fold takes the folder and a node and returns the folder (its errors   *)
(* and its receiver flag may have changed) with the folded node.           *)
(***************************************************************************)
\* the value of the receiver flag at a point of the traversal, written down in
\* `trace` (a history the properties read, no field of the folder)
Observe(self, at) ==
    [self EXCEPT !.trace = Append(@, [at |-> at, flag |-> self.has_self_parameter])]

ToTupleImplementation(tuples, tuple_placeholder_ident) ==
    Observe([tuples |-> tuples, tuple_placeholder_ident |-> tuple_placeholder_ident,
             errors |-> <<>>, has_self_parameter |-> FALSE, trace |-> <<>>], "start")

Folded(self, node) == [self |-> self, node |-> node]

ImplItemMacro(mac) == [kind |-> "Macro", mac |-> mac]

ImplItemMethod(inputs, block) ==
    [kind |-> "Method", sig |-> [inputs |-> inputs], block |-> block]

ExprMacro(mac) == [kind |-> "Macro", mac |-> mac]

\* Stmt::Local: let pat = init;
Local(init) == [kind |-> "Local", init |-> init]

\* ImplItem::Type: type Name = ty;
ImplItemType(ty) == [kind |-> "Type", ty |-> ty]

TypeMacro(mac) == [kind |-> "Macro", mac |-> mac]

\* the arms of the match on ForTuplesMacro::try_from for an impl item
ImplItemMacroArms(self, macro_item, parsed) ==
    IF parsed.ok
    THEN IF parsed.value.some
         THEN Folded(self, Verbatim(ForTuplesMacro_expand(parsed.value.value,
                                        self.tuple_placeholder_ident, self.tuples, FALSE)))
         ELSE Folded(self, macro_item)
    ELSE Folded([self EXCEPT !.errors = @ \o parsed.error], Verbatim(<<>>))

ToTuple_fold_impl_item_macro(self, macro_item) ==
    ImplItemMacroArms(self, macro_item, ForTuplesMacro_try_from(macro_item.mac))

\* the arms of the match on ForTuplesMacro::try_from for the expression of a statement
ExprMacroArms(self, expr_macro, parsed) ==
    IF parsed.ok
    THEN IF parsed.value.some
         THEN [self |-> self, expanded |-> TRUE,
               expr |-> Verbatim(ForTuplesMacro_expand(parsed.value.value,
                                    self.tuple_placeholder_ident, self.tuples,
                                    self.has_self_parameter))]
         ELSE [self |-> self, expanded |-> FALSE, expr |-> expr_macro]
    ELSE [self |-> [self EXCEPT !.errors = @ \o parsed.error],
          expanded |-> FALSE, expr |-> Verbatim(<<>>)]

\* fold::fold_expr with ToTupleImplementation as the folder.  The folder has no
\* fold_expr and no fold_macro of its own: the traversal goes down the operands
\* and keeps an invocation as it is written (fold::fold_expr_macro).  The
\* expressions of the model hold no block and no type, so no method of the
\* folder is reached and the folder is left as it is.
RECURSIVE ToTuple_fold_expr(_, _)
ToTuple_fold_expr(self, expr) ==
    CASE expr.kind = "Macro" -> expr
      [] expr.kind = "Call" ->
            [expr EXCEPT !.func = ToTuple_fold_expr(self, expr.func),
                         !.args = [k \in 1..Len(expr.args) |->
                                      ToTuple_fold_expr(self, expr.args[k])]]
      [] expr.kind = "MethodCall" ->
            [expr EXCEPT !.receiver = ToTuple_fold_expr(self, expr.receiver),
                         !.args = [k \in 1..Len(expr.args) |->
                                      ToTuple_fold_expr(self, expr.args[k])]]
      [] OTHER -> expr

\* the match on the expression of the statement
StmtExprArms(self, expr) ==
    IF expr.kind = "Macro"
    THEN ExprMacroArms(self, expr, ForTuplesMacro_try_from(expr.mac))
    ELSE [self |-> self, expanded |-> FALSE, expr |-> ToTuple_fold_expr(self, expr)]

\* the statement built from the folded expression
RebuildStmt(trailing_semi, folded) ==
    IF folded.expanded
    THEN Folded(folded.self, StmtExpr(folded.expr))
    ELSE IF trailing_semi
    THEN Folded(folded.self, StmtSemi(folded.expr))
    ELSE Folded(folded.self, StmtExpr(folded.expr))

\* fold::fold_stmt, the traversal of the statements that are no expression:
\* the initializer of a let goes through fold::fold_expr
default_fold_stmt(self, stmt) ==
    CASE stmt.kind = "Local" ->
            Folded(self, [stmt EXCEPT !.init = ToTuple_fold_expr(self, stmt.init)])

ToTuple_fold_stmt(self, stmt) ==
    IF stmt.kind \in {"StmtExpr", "StmtSemi"}
    THEN RebuildStmt(stmt.kind = "StmtSemi", StmtExprArms(Observe(self, "stmt"), stmt.expr))
    ELSE default_fold_stmt(Observe(self, "stmt"), stmt)

AppendFolded(nodes, last) == Folded(last.self, Append(nodes, last.node))

FoldStmtAfter(front, stmt) == AppendFolded(front.node, ToTuple_fold_stmt(front.self, stmt))

\* fold::fold_block: the statements are folded in order
RECURSIVE ToTuple_fold_block(_, _)
ToTuple_fold_block(self, block) ==
    IF block = <<>> THEN Folded(self, <<>>)
    ELSE FoldStmtAfter(ToTuple_fold_block(self, SubSeq(block, 1, Len(block) - 1)),
                       block[Len(block)])

\* the first parameter of the signature is a receiver
HasSelf(inputs) == IF inputs = <<>> THEN FALSE ELSE inputs[1] = "Receiver"

\* fold::fold_signature: the signatures of the model hold no type, the folder
\* goes through with the flag it came with
fold_signature(self, sig) == Folded(Observe(self, "signature"), sig)

\* the flag of the method is set for its block
EnterBlock(self, has_self) == Observe([self EXCEPT !.has_self_parameter = has_self], "block")

\* a method left with the flag of its block still set
LeaveMethod_keep_flag(impl_item_method, old_has_self_parameter, block) ==
    Folded(Observe(block.self, "left"), [impl_item_method EXCEPT !.block = block.node])

\* the flag is restored and the folded block put in the method
LeaveMethod(impl_item_method, old_has_self_parameter, block) ==
    Folded(Observe([block.self EXCEPT !.has_self_parameter = old_has_self_parameter], "left"),
           [impl_item_method EXCEPT !.block = block.node])

\* the method after fold_signature
AfterSignature(impl_item_method, has_self, signature) ==
    LeaveMethod([impl_item_method EXCEPT !.sig = signature.node],
                signature.self.has_self_parameter,
                ToTuple_fold_block(EnterBlock(signature.self, has_self),
                                   impl_item_method.block))

ToTuple_fold_impl_item_method(self, impl_item_method) ==
    AfterSignature(impl_item_method, HasSelf(impl_item_method.sig.inputs),
                   fold_signature(self, impl_item_method.sig))

\* the arms of the match on ForTuplesMacro::try_from for a type
TypeMacroArms(self, ty_macro, parsed) ==
    IF parsed.ok
    THEN IF parsed.value.some
         THEN Folded(self, Verbatim(ForTuplesMacro_expand(parsed.value.value,
                                        self.tuple_placeholder_ident, self.tuples, FALSE)))
         ELSE Folded(self, ty_macro)
    ELSE Folded([self EXCEPT !.errors = @ \o parsed.error], Verbatim(<<>>))

ToTuple_fold_type(self, ty) ==
    IF ty.kind = "Macro"
    THEN TypeMacroArms(self, ty, ForTuplesMacro_try_from(ty.mac))
    ELSE Folded(self, ty)

WithTy(impl_item_type, ty) == Folded(ty.self, [impl_item_type EXCEPT !.ty = ty.node])

\* fold::fold_impl_item_type: the type of the item goes through fold_type
fold_impl_item_type(self, impl_item_type) ==
    WithTy(impl_item_type, ToTuple_fold_type(self, impl_item_type.ty))

\* the match on the kind of the item
ImplItemArms(self, item) ==
    CASE item.kind = "Macro" -> ToTuple_fold_impl_item_macro(self, item)
      [] item.kind = "Method" -> ToTuple_fold_impl_item_method(self, item)
      [] item.kind = "Type" -> fold_impl_item_type(self, item)

ToTuple_fold_impl_item(self, item) == ImplItemArms(Observe(self, "item"), item)

FoldItemAfter(front, item) == AppendFolded(front.node, ToTuple_fold_impl_item(front.self, item))

\* fold::fold_item_impl: the items are folded in order
RECURSIVE ToTuple_fold_items(_, _)
ToTuple_fold_items(self, items) ==
    IF items = <<>> THEN Folded(self, <<>>)
    ELSE FoldItemAfter(ToTuple_fold_items(self, SubSeq(items, 1, Len(items) - 1)),
                       items[Len(items)])

WithItems(impl, items) == Folded(items.self, [impl EXCEPT !.items = items.node])

fold_item_impl(self, impl) == WithItems(impl, ToTuple_fold_items(self, impl.items))

\* errors.pop() is the error the others are combined into
CombineErrors(errors) == <<errors[Len(errors)]>> \o SubSeq(errors, 1, Len(errors) - 1)

\* the self type and the attribute are set, then the errors are looked at
FinishImplementation(tuples, errors, with_generics) ==
    IF ~with_generics.ok
    THEN with_generics
    ELSE IF errors # <<>>
    THEN Err(CombineErrors(errors))
    ELSE Ok(<< [with_generics.value EXCEPT
                    !.self_ty = [kind |-> "Tuple", elems |-> tuples],
                    !.attrs = Append(@, "allow(unused)")] >>)

AfterFold(tuples, folded) ==
    FinishImplementation(tuples, folded.self.errors,
                         add_tuple_elements_generics(tuples, folded.node))

generate_implementation(impl, tuple_placeholder_ident, tuples) ==
    AfterFold(tuples,
              fold_item_impl(ToTupleImplementation(tuples, tuple_placeholder_ident), impl))

(***************************************************************************)
(* The self type of the template and its placeholder.                      *)
(***************************************************************************)
PathSegment(ident, arguments) == [ident |-> ident, arguments |-> arguments]

TypePath(leading_colon, segments) ==
    [kind |-> "Path", leading_colon |-> leading_colon, segments |-> segments]

\* get_ident taking the last segment whatever the shape of the path
get_ident_last_segment(path) == Some(path.segments[Len(path.segments)].ident)

\* Path::get_ident
get_ident(path) ==
    IF ~path.leading_colon /\ Len(path.segments) = 1 /\ ~path.segments[1].arguments
    THEN Some(path.segments[1].ident)
    ELSE None

extract_tuple_placeholder_ident(impl) ==
    IF impl.self_ty.kind = "Path" /\ get_ident(impl.self_ty).some
    THEN Ok(get_ident(impl.self_ty).value)
    ELSE Err(Error_new("self_ty", "Expected an Ident as tuple placeholder."))

(***************************************************************************)
(* The templates the attribute is applied to.                              *)
(***************************************************************************)
IdentSelfTy == TypePath(FALSE, << PathSegment(Placeholder, FALSE) >>)

OtherSelfTys ==
    { TypePath(FALSE, << PathSegment(<<"module">>, FALSE), PathSegment(Placeholder, FALSE) >>),
      TypePath(FALSE, << PathSegment(Placeholder, TRUE) >>),
      TypePath(TRUE, << PathSegment(Placeholder, FALSE) >>),
      [kind |-> "Reference"] }

ForTuplesMacros(firsts) ==
    { Macro("for_tuples", f, TRUE, b, c, "item") : f \in firsts, b \in Bodies, c \in BOOLEAN }

MalformedMacros ==
    { Macro("for_tuples", "other", TRUE, <<>>, FALSE, "item"),
      Macro("for_tuples", "pound", FALSE, <<>>, FALSE, "item") }

OtherMacros == { Macro("println", "other", TRUE, <<>>, FALSE, "item") }

SigInputs == { <<>>, <<"Typed">>, <<"Receiver", "Typed">> }

MacroItems ==
    { ImplItemMacro(m) : m \in ForTuplesMacros({"type"}) \cup MalformedMacros \cup OtherMacros }

MethodStmts ==
    LET macros == ForTuplesMacros({"paren", "pound"}) \cup MalformedMacros \cup OtherMacros
    IN  { StmtExpr(ExprMacro(m)) : m \in macros } \cup { StmtSemi(ExprMacro(m)) : m \in macros }

MethodItems == { ImplItemMethod(inputs, <<s>>) : inputs \in SigInputs, s \in MethodStmts }

SimpleItems ==
    { <<>>,
      << ImplItemMacro(Macro("for_tuples", "other", TRUE, <<>>, FALSE, "item")) >>,
      << ImplItemMethod(<<"Receiver">>,
            << StmtSemi(ExprMacro(Macro("for_tuples", "pound", TRUE,
                    << StmtSemi(MethodCall(Path(<<Placeholder>>), <<>>)) >>, FALSE, "item"))) >>) >> }

\* the source locations of the invocations in a template of several items:
\* ItemSpans[k] for item k, StmtSpans[k][n] for statement n of item k
ItemSpans == << "item1", "item2", "item3" >>

StmtSpans == << << "stmt1_1", "stmt1_2" >>, << "stmt2_1", "stmt2_2" >>,
                << "stmt3_1", "stmt3_2" >> >>

\* for_tuples!( Tuple ), a body that starts with no token of a repetition
NoRepetition(span) == Macro("for_tuples", "other", TRUE, <<>>, FALSE, span)

\* for_tuples!( #( Tuple.method(); ) ), the closing star is missing
Unclosed(span) == Macro("for_tuples", "pound", FALSE, <<>>, FALSE, span)

\* for_tuples!( #( Tuple.method(); )* )
CallEach(span) ==
    Macro("for_tuples", "pound", TRUE,
          << StmtSemi(MethodCall(Path(<<Placeholder>>), <<>>)) >>, FALSE, span)

\* for_tuples!( type Ret = ( #( Tuple::function ),* ); )
TypeEach(span) ==
    Macro("for_tuples", "type", TRUE,
          << StmtExpr(Path(<<Placeholder, Function>>)) >>, TRUE, span)

\* the impl items that are macro invocations, as item k of a template
MacroItemsAt(k) ==
    { ImplItemMacro(NoRepetition(ItemSpans[k])), ImplItemMacro(Unclosed(ItemSpans[k])),
      ImplItemMacro(TypeEach(ItemSpans[k])),
      ImplItemMacro(Macro("println", "other", TRUE, <<>>, FALSE, ItemSpans[k])) }

\* methods of two statements, as item k of a template
MethodItemsAt(k) ==
    { ImplItemMethod(<<"Receiver">>,
                     << StmtSemi(ExprMacro(Unclosed(StmtSpans[k][1]))),
                        StmtExpr(ExprMacro(CallEach(StmtSpans[k][2]))) >>),
      ImplItemMethod(<<"Typed">>,
                     << StmtSemi(ExprMacro(CallEach(StmtSpans[k][1]))),
                        StmtSemi(ExprMacro(NoRepetition(StmtSpans[k][2]))) >>),
      ImplItemMethod(<<"Receiver", "Typed">>,
                     << StmtSemi(ExprMacro(NoRepetition(StmtSpans[k][1]))),
                        StmtSemi(ExprMacro(Unclosed(StmtSpans[k][2]))) >>),
      ImplItemMethod(<<>>, << StmtExpr(ExprMacro(CallEach(StmtSpans[k][1]))) >>),
      ImplItemMethod(<<"Receiver">>, << StmtExpr(ExprMacro(CallEach(StmtSpans[k][1]))) >>) }

\* for_tuples!( ( #( Tuple::function(counter) ),* ) )
TupleOfCalls(span) ==
    Macro("for_tuples", "paren", TRUE, << StmtExpr(Call(Path(<<Placeholder, Function>>), << Path(<<Counter>>) >>)) >>,
          TRUE, span)

\* an invocation in the places of an expression or of a type, as item k of a template:
\* the initializer of a let, the argument of a call, the receiver of a method
\* call, the type of an associated type
NestedItemsAt(k) ==
    { ImplItemMethod(inputs, << stmt >>) :
        inputs \in { <<>>, <<"Receiver">> },
        stmt \in { Local(ExprMacro(mac)) :
                     mac \in { TupleOfCalls(StmtSpans[k][1]), Unclosed(StmtSpans[k][1]) } }
                 \cup { StmtSemi(Call(Path(<<Function>>), << ExprMacro(TupleOfCalls(StmtSpans[k][1])) >>)),
                        StmtExpr(MethodCall(ExprMacro(TupleOfCalls(StmtSpans[k][1])), <<>>)),
                        Local(Call(Path(<<Placeholder, Function>>), << Path(<<Counter>>) >>)),
                        StmtExpr(ExprMacro(TupleOfCalls(StmtSpans[k][1]))) } }
    \cup { ImplItemType(ty) :
             ty \in { TypeMacro(mac) :
                        mac \in { Macro("for_tuples", "paren", TRUE,
                                        << StmtExpr(Path(<<Placeholder, Function>>)) >>, TRUE,
                                        ItemSpans[k]),
                                  Unclosed(ItemSpans[k]),
                                  Macro("println", "other", TRUE, <<>>, FALSE, ItemSpans[k]) } }
                    \cup { IdentSelfTy } }

\* templates of two and of three items
ItemSequences ==
    { <<a, b>> : a \in MacroItemsAt(1) \cup MethodItemsAt(1),
                 b \in MacroItemsAt(2) \cup MethodItemsAt(2) }
    \cup { <<a, b, c>> : a \in MethodItemsAt(1), b \in MethodItemsAt(2), c \in MacroItemsAt(3) }
    \cup { <<a>> : a \in NestedItemsAt(1) }
    \cup { <<a, b>> : a \in NestedItemsAt(1), b \in NestedItemsAt(2) \cup MethodItemsAt(2) }

ItemImpl(self_ty, trait_, items) ==
    [kind |-> "ItemImpl", attrs |-> <<>>,
     generics |-> [params |-> <<>>, where_clause |-> <<>>], trait_ |-> trait_, self_ty |-> self_ty, items |-> items]

\* a type parameter declared by the template, without bound
TypeParam(ident) == [ident |-> ident, bounds |-> <<>>]

\* the type parameter lists a template declares: parameters of its own (T, R),
\* the first n tuple element identifiers, a tuple element identifier among others
DeclaredParams ==
    { << TypeParam(<<"T">>), TypeParam(<<"R">>) >>,
      << TypeParam(<<"T">>), TypeParam(generate_tuple_element_ident(1)) >> }
    \cup { [k \in 1..n |-> TypeParam(generate_tuple_element_ident(k - 1))] : n \in 1..MaxCount }

\* impl<params> Trait for Tuple { items }
GenericItemImpl(params, items) ==
    [ItemImpl(IdentSelfTy, Some("Trait"), items) EXCEPT !.generics.params = params]

GenericTemplates ==
    { GenericItemImpl(params, items) :
        params \in DeclaredParams,
        items \in { <<>>, << ImplItemMethod(<<>>, << StmtExpr(ExprMacro(CallEach("item"))) >>) >> } }

Templates ==
    { ItemImpl(IdentSelfTy, Some("Trait"), items) :
        items \in { <<>> } \cup { <<it>> : it \in MacroItems \cup MethodItems } }
    \cup { ItemImpl(self_ty, trait_, items) :
            self_ty \in { IdentSelfTy } \cup OtherSelfTys,
            trait_ \in { None, Some("Trait") },
            items \in SimpleItems }
    \cup { ItemImpl(IdentSelfTy, Some("Trait"), items) : items \in ItemSequences }
    \cup GenericTemplates

(***************************************************************************)
(* The state machine: impl_for_tuples applied to one template.             *)
(***************************************************************************)
Pending == [pending |-> TRUE]

NoIdent == <<>>

Init ==
    /\ pc = "impl_for_tuples"
    /\ trait_impl \in Templates
    /\ count \in 0..MaxCount
    /\ tuple_elements = <<>>
    /\ placeholder_ident = NoIdent
    /\ i = 0
    /\ res = <<>>
    /\ passes = <<>>
    /\ result = Pending
    /\ output = <<>>

\* impl_for_tuples_impl: the identifiers are generated, the mode is dispatched
ImplForTuplesImpl ==
    /\ pc = "impl_for_tuples"
    /\ tuple_elements' = TupleElements(count)
    /\ pc' = "semi_automatic_impl"
    /\ UNCHANGED <<trait_impl, count, placeholder_ident, i, res, passes, result, output>>

\* semi_automatic_impl up to the loop: the placeholder is extracted
ExtractPlaceholder ==
    /\ pc = "semi_automatic_impl"
    /\ LET extracted == extract_tuple_placeholder_ident(trait_impl)
       IN  IF extracted.ok
           THEN /\ placeholder_ident' = extracted.value
                /\ pc' = "try_for_each"
                /\ result' = result
           ELSE /\ placeholder_ident' = placeholder_ident
                /\ pc' = "returned"
                /\ result' = extracted
    /\ UNCHANGED <<trait_impl, count, tuple_elements, i, res, passes, output>>

\* the end of the range of arities
RangeEnd(elements) == Len(elements)

\* a filter that keeps every arity
Filter_keep_all(arity) == TRUE

\* .filter(|i| *i != 1)
Filter(arity) == arity # 1

\* an arity the filter drops
FilterSkip ==
    /\ pc = "try_for_each"
    /\ i < RangeEnd(tuple_elements)
    /\ ~Filter(i)
    /\ i' = i + 1
    /\ UNCHANGED <<pc, trait_impl, count, tuple_elements, placeholder_ident, res, passes,
                   result, output>>

\* the fragment put in front of the stream
Extend_in_front(stream, fragment) == fragment \o stream

\* res.extend(fragment)
Extend(stream, fragment) == stream \o fragment

\* the folder at the end of the fold of the pass, kept in the history of the
\* passes for the properties (generate_implementation drops it)
FolderAfterFold ==
    fold_item_impl(ToTupleImplementation(SubSeq(tuple_elements, 1, i), placeholder_ident),
                   trait_impl).self

\* a closure that swallows the error and goes on with the next arity
PassOutcome_go_on(generated) ==
    /\ passes' = Append(passes, [arity |-> i, generated |-> generated,
                                 to_tuple |-> FolderAfterFold])
    /\ res' = IF generated.ok THEN Extend(res, generated.value) ELSE res
    /\ i' = i + 1
    /\ pc' = pc
    /\ result' = result

\* the fragment is appended, or the error leaves try_for_each
PassOutcome(generated) ==
    /\ passes' = Append(passes, [arity |-> i, generated |-> generated,
                                 to_tuple |-> FolderAfterFold])
    /\ IF generated.ok
       THEN /\ res' = Extend(res, generated.value)
            /\ i' = i + 1
            /\ pc' = pc
            /\ result' = result
       ELSE /\ res' = res
            /\ i' = i
            /\ pc' = "returned"
            /\ result' = generated

\* the closure of try_for_each for one arity
ArityPass ==
    /\ pc = "try_for_each"
    /\ i < RangeEnd(tuple_elements)
    /\ Filter(i)
    /\ PassOutcome(generate_implementation(trait_impl, placeholder_ident,
                                           SubSeq(tuple_elements, 1, i)))
    /\ UNCHANGED <<trait_impl, count, tuple_elements, placeholder_ident, output>>

\* the range is exhausted: Ok(res)
Return ==
    /\ pc = "try_for_each"
    /\ i >= RangeEnd(tuple_elements)
    /\ result' = Ok(res)
    /\ pc' = "returned"
    /\ UNCHANGED <<trait_impl, count, tuple_elements, placeholder_ident, i, res, passes, output>>

\* Error::to_compile_error: one compile_error! per message
to_compile_error(error) ==
    [k \in 1..Len(error) |->
        [kind |-> "CompileError", span |-> error[k].span, message |-> error[k].message]]

\* the error dropped instead of turned into diagnostics
UnwrapOrDefault(r) == IF r.ok THEN r.value ELSE <<>>

\* .unwrap_or_else(|e| e.to_compile_error())
UnwrapOrElse(r) == IF r.ok THEN r.value ELSE to_compile_error(r.error)

\* impl_for_tuples hands the tokens back to the compiler
Emit ==
    /\ pc = "returned"
    /\ output' = UnwrapOrElse(result)
    /\ pc' = "done"
    /\ UNCHANGED <<trait_impl, count, tuple_elements, placeholder_ident, i, res, passes, result>>

Next ==
    \/ ImplForTuplesImpl
    \/ ExtractPlaceholder
    \/ FilterSkip
    \/ ArityPass
    \/ Return
    \/ Emit

Spec == Init /\ [][Next]_vars

TypeOK ==
    /\ pc \in {"impl_for_tuples", "semi_automatic_impl", "try_for_each", "returned", "done"}
    /\ count \in 0..MaxCount
    /\ i \in 0..MaxCount

(***************************************************************************)
(* Vocabulary of the properties.                                           *)
(***************************************************************************)
\* the implementation blocks of a token stream, in order
ImplBlocks(stream) == SelectSeq(stream, LAMBDA t : t.kind = "ItemImpl")

\* the number of tuple elements the self type of a block is built from
Arity(block) == Len(block.self_ty.elems)

Arities(stream) == { Arity(ImplBlocks(stream)[k]) : k \in 1..Len(ImplBlocks(stream)) }

OnlyDiagnostics(stream) ==
    /\ stream # <<>>
    /\ \A k \in 1..Len(stream) : stream[k].kind = "CompileError"

SomePassFailed == \E k \in 1..Len(passes) : ~passes[k].generated.ok

IsMarker(mac) ==
    mac.path = "for_tuples" /\ mac.first \in {"type", "paren", "pound"} /\ mac.wellformed

\* the places of the template that hold a repetition marker: <<item>> for an
\* impl item, <<item, statement>> for a statement of a method
MarkerPlaces ==
    { <<k>> : k \in { n \in 1..Len(trait_impl.items) :
                        /\ trait_impl.items[n].kind = "Macro"
                        /\ IsMarker(trait_impl.items[n].mac) } }
    \cup UNION { { <<k, s>> : s \in { n \in 1..Len(trait_impl.items[k].block) :
                                        /\ trait_impl.items[k].block[n].kind \in {"StmtExpr", "StmtSemi"}
                                        /\ trait_impl.items[k].block[n].expr.kind = "Macro"
                                        /\ IsMarker(trait_impl.items[k].block[n].expr.mac) } } :
                 k \in { n \in 1..Len(trait_impl.items) : trait_impl.items[n].kind = "Method" } }

MarkerAt(place) ==
    IF Len(place) = 1 THEN trait_impl.items[place[1]].mac
    ELSE trait_impl.items[place[1]].block[place[2]].expr.mac

\* whether the marker at the place stands in a method whose first parameter is a receiver
InReceiverMethod(place) ==
    /\ Len(place) = 2
    /\ trait_impl.items[place[1]].sig.inputs # <<>>
    /\ trait_impl.items[place[1]].sig.inputs[1] = "Receiver"

\* the tokens the repetition at the place expanded to in a generated block
RepetitionIn(block, place) ==
    LET node == IF Len(place) = 1 THEN block.items[place[1]]
                ELSE block.items[place[1]].block[place[2]].expr
    IN  IF MarkerAt(place).first = "pound" THEN node.tokens ELSE node.tokens[1].group

\* the generated blocks of the passes that succeeded
GeneratedBlocks ==
    { passes[k].generated.value[1] : k \in { n \in 1..Len(passes) : passes[n].generated.ok } }

WithoutCommas(tokens) == SelectSeq(tokens, LAMBDA t : t.kind # "Comma")

CommaCount(tokens) == Len(tokens) - Len(WithoutCommas(tokens))

\* statement j of copy c (both counted from 0 and 1 resp.) of an expansion
CopyStmt(tokens, place, c, j) == WithoutCommas(tokens)[c * Len(MarkerAt(place).stmts) + j]

\* a template the generator accepts: an identifier as self type, a trait, markers that parse
WellFormedTemplate ==
    /\ trait_impl.self_ty = IdentSelfTy
    /\ trait_impl.trait_.some
    /\ \A k \in 1..Len(trait_impl.items) :
          /\ trait_impl.items[k].kind = "Macro" =>
                (trait_impl.items[k].mac.path = "for_tuples" => IsMarker(trait_impl.items[k].mac))
          /\ trait_impl.items[k].kind = "Type" =>
                ((trait_impl.items[k].ty.kind = "Macro"
                    /\ trait_impl.items[k].ty.mac.path = "for_tuples")
                 => IsMarker(trait_impl.items[k].ty.mac))
          /\ trait_impl.items[k].kind = "Method" =>
                \A n \in 1..Len(trait_impl.items[k].block) :
                    LET s == trait_impl.items[k].block[n]
                    IN  (/\ s.kind \in {"StmtExpr", "StmtSemi"}
                         /\ s.expr.kind = "Macro"
                         /\ s.expr.mac.path = "for_tuples") => IsMarker(s.expr.mac)

(***************************************************************************)
(* C1.  For an arity count N the semi-automatic mode emits one             *)
(* implementation for every arity of 0..N except 1, the arity N included.  *)
(* The range of semi_automatic_impl ends before N: the statement fails.    *)
(***************************************************************************)
C1_EveryArityUpToCount ==
    (pc = "done" /\ WellFormedTemplate) =>
        /\ result.ok
        /\ Arities(output) = (0..count) \ {1}
        /\ Len(ImplBlocks(output)) = Cardinality((0..count) \ {1})

(***************************************************************************)
(* C2.  No implementation whose self type is built from exactly one tuple  *)
(* element identifier is ever generated, whatever the template and N.      *)
(***************************************************************************)
C2_NoArityOne ==
    /\ 1 \notin Arities(res)
    /\ 1 \notin Arities(output)
    /\ \A k \in 1..Len(passes) : passes[k].arity # 1

\* a run that went past arity 1 and emitted the arities around it
C2_Witness ==
    /\ pc = "done"
    /\ count >= 3
    /\ result.ok
    /\ {0, 2} \subseteq Arities(output)

(***************************************************************************)
(* C7.  When the self type of the template is not a single bare            *)
(* identifier, semi_automatic_impl fails with the placeholder error before *)
(* any arity pass runs and no implementation is emitted.                   *)
(***************************************************************************)
C7_MissingSelfPlaceholder ==
    trait_impl.self_ty \in OtherSelfTys =>
        /\ passes = <<>>
        /\ res = <<>>
        /\ pc \notin {"try_for_each"}
        /\ pc \in {"returned", "done"} =>
              /\ ~result.ok
              /\ Len(result.error) = 1
              /\ result.error[1].span = "self_ty"
        /\ pc = "done" =>
              /\ OnlyDiagnostics(output)
              /\ ImplBlocks(output) = <<>>

C7_Witness ==
    /\ pc = "done"
    /\ trait_impl.self_ty \in OtherSelfTys
    /\ trait_impl.self_ty.kind = "Path"
    /\ Len(trait_impl.self_ty.segments) = 2
    /\ count >= 2
    /\ OnlyDiagnostics(output)

(***************************************************************************)
(* C8.  For every N >= 0, N = 0 included, an inherent implementation block *)
(* (no trait reference) whose self type is an identifier ends in the       *)
(* missing-trait error and no generated code.  With N = 0 no pass runs and *)
(* the call returns successfully: the statement fails.                     *)
(***************************************************************************)
C8_InherentImplFails ==
    (pc = "done" /\ ~trait_impl.trait_.some /\ trait_impl.self_ty = IdentSelfTy) =>
        /\ ~result.ok
        /\ result.error[1].span = "trait_impl"
        /\ OnlyDiagnostics(output)

(***************************************************************************)
(* C9.  The output is all or nothing: when an arity pass fails the output  *)
(* holds diagnostics only and no implementation block; when every pass     *)
(* succeeds the output is the fragments of all passes.                     *)
(***************************************************************************)
C9_AllOrNothing ==
    pc = "done" =>
        IF SomePassFailed
        THEN /\ OnlyDiagnostics(output)
             /\ ImplBlocks(output) = <<>>
        ELSE /\ \A k \in 1..Len(passes) :
                    \E n \in 1..Len(output) : <<output[n]>> = passes[k].generated.value
             /\ (result.ok => Len(output) = Len(passes))

\* a run whose pass failed
C9_Witness ==
    /\ pc = "done"
    /\ SomePassFailed
    /\ count >= 2
    /\ OnlyDiagnostics(output)

(***************************************************************************)
(* C10.  The implementation blocks of the output are in strictly ascending *)
(* order of arity: the smaller arity first, no arity twice.                *)
(***************************************************************************)
C10_AscendingArity ==
    \A stream \in {res, output} :
        \A j, k \in 1..Len(ImplBlocks(stream)) :
            j < k => Arity(ImplBlocks(stream)[j]) < Arity(ImplBlocks(stream)[k])

C10_Witness ==
    /\ pc = "done"
    /\ Len(ImplBlocks(output)) >= 3

(***************************************************************************)
(* Vocabulary of the properties of an expansion.                           *)
(***************************************************************************)
\* whether the identifier occurs in the expression
RECURSIVE ExprMentions(_, _)
ExprMentions(ident, e) ==
    CASE e.kind = "Path" -> \E k \in 1..Len(e.segs) : e.segs[k] = ident
      [] e.kind = "MethodCall" ->
            \/ ExprMentions(ident, e.receiver)
            \/ e.method = ident
            \/ \E k \in 1..Len(e.args) : ExprMentions(ident, e.args[k])
      [] e.kind = "Call" ->
            \/ ExprMentions(ident, e.func)
            \/ \E k \in 1..Len(e.args) : ExprMentions(ident, e.args[k])
      [] e.kind = "Field" -> e.base = ident

\* the indices of the fields of self the expression reads
RECURSIVE ExprFields(_)
ExprFields(e) ==
    CASE e.kind = "Path" -> {}
      [] e.kind = "MethodCall" ->
            ExprFields(e.receiver) \cup UNION { ExprFields(e.args[k]) : k \in 1..Len(e.args) }
      [] e.kind = "Call" ->
            ExprFields(e.func) \cup UNION { ExprFields(e.args[k]) : k \in 1..Len(e.args) }
      [] e.kind = "Field" -> { e.index }

\* the expression with every occurrence of the placeholder renamed
RECURSIVE Subst(_, _)
Subst(e, ident) ==
    CASE e.kind = "Path" ->
            Path([k \in 1..Len(e.segs) |-> IF e.segs[k] = Placeholder THEN ident ELSE e.segs[k]])
      [] e.kind = "MethodCall" ->
            MethodCall(Subst(e.receiver, ident), [k \in 1..Len(e.args) |-> Subst(e.args[k], ident)])
      [] e.kind = "Call" ->
            Call(Subst(e.func, ident), [k \in 1..Len(e.args) |-> Subst(e.args[k], ident)])

\* every method call of b on the placeholder is, in the copy o of b, a call on self.index
RECURSIVE ReceiversRewritten(_, _, _)
ReceiversRewritten(b, o, index) ==
    CASE b.kind = "Path" -> TRUE
      [] b.kind = "MethodCall" ->
            /\ o.kind = "MethodCall"
            /\ IF b.receiver = Path(<<Placeholder>>)
               THEN o.receiver = SelfField(index)
               ELSE ReceiversRewritten(b.receiver, o.receiver, index)
            /\ Len(o.args) = Len(b.args)
            /\ \A k \in 1..Len(b.args) : ReceiversRewritten(b.args[k], o.args[k], index)
      [] b.kind = "Call" ->
            /\ o.kind = "Call"
            /\ ReceiversRewritten(b.func, o.func, index)
            /\ Len(o.args) = Len(b.args)
            /\ \A k \in 1..Len(b.args) : ReceiversRewritten(b.args[k], o.args[k], index)

\* Tuple::function(counter), the call of the counting test
CountingCall(ty) == Call(Path(<<ty, Function>>), << Path(<<Counter>>) >>)

\* the values the counting calls of the statements return, a counter going up by
\* one at each call on a tuple element
RECURSIVE Snapshots(_, _)
Snapshots(stmts, counter) ==
    IF stmts = <<>> THEN <<>>
    ELSE IF \E n \in 0..count : Head(stmts).expr = CountingCall(generate_tuple_element_ident(n))
    THEN <<counter + 1>> \o Snapshots(Tail(stmts), counter + 1)
    ELSE Snapshots(Tail(stmts), counter)

(***************************************************************************)
(* C3.  After the expansion of a marker, receiver flag on or off, no       *)
(* occurrence of the placeholder remains in the expansion, the arguments   *)
(* of a method call on the placeholder included.  The arguments of such a  *)
(* call are not folded when the flag is on: the statement fails.           *)
(***************************************************************************)
C3_NoPlaceholderRemains ==
    \A block \in GeneratedBlocks : \A place \in MarkerPlaces :
        LET tokens == RepetitionIn(block, place)
        IN  \A k \in 1..Len(tokens) :
                tokens[k].kind # "Comma" => ~ExprMentions(placeholder_ident, tokens[k].expr)

(***************************************************************************)
(* C4.  In a method with a receiver, copy i of a statement marker calls    *)
(* self.i wherever the body calls a method on the placeholder.  A call on  *)
(* the placeholder inside the arguments of another such call is left as it *)
(* is written (see C3): the statement fails.                               *)
(***************************************************************************)
C4_ReceiverIsSelfField ==
    \A block \in GeneratedBlocks : \A place \in MarkerPlaces :
        InReceiverMethod(place) =>
            \A c \in 0..(Arity(block) - 1) : \A j \in 1..Len(MarkerAt(place).stmts) :
                ReceiversRewritten(MarkerAt(place).stmts[j].expr,
                                   CopyStmt(RepetitionIn(block, place), place, c, j).expr, c)

C6_SeparatorBetween ==
    \A block \in GeneratedBlocks : \A place \in MarkerPlaces :
        LET tokens == RepetitionIn(block, place)
            k == Arity(block)
        IN  IF MarkerAt(place).comma
            THEN /\ CommaCount(tokens) = (IF k = 0 THEN 0 ELSE k - 1)
                 /\ tokens # <<>> => tokens[Len(tokens)] # Comma
            ELSE CommaCount(tokens) = 0

(***************************************************************************)
(* C6 amended.  With the separator every one of the k copies is followed   *)
(* by one separator (k separators, the last one trailing, none for k = 0); *)
(* without it the copies are concatenated with no separator at all.        *)
(***************************************************************************)
C6_SeparatorAfterEachCopy ==
    \A block \in GeneratedBlocks : \A place \in MarkerPlaces :
        LET tokens == RepetitionIn(block, place)
            m == Len(MarkerAt(place).stmts)
            k == Arity(block)
        IN  IF MarkerAt(place).comma
            THEN /\ CommaCount(tokens) = k
                 /\ Len(tokens) = k * (m + 1)
                 /\ \A c \in 1..k : tokens[c * (m + 1)] = Comma
            ELSE CommaCount(tokens) = 0

\* three copies of a two-statement body, each followed by its comma
C6_Witness ==
    /\ pc = "done"
    /\ \E block \in GeneratedBlocks : \E place \in MarkerPlaces :
          /\ Arity(block) = 3
          /\ MarkerAt(place).comma
          /\ Len(MarkerAt(place).stmts) = 2
          /\ CommaCount(RepetitionIn(block, place)) = 3

(***************************************************************************)
(* C11 as stated.  A failing arity pass does not block the other arities:  *)
(* the pass runs for every arity of the range and the reported failure     *)
(* holds the diagnostics of all the failing passes.  try_for_each leaves   *)
(* at the first error: the statement fails.                                *)
(***************************************************************************)
RECURSIVE AllFailures(_)
AllFailures(log) ==
    IF log = <<>> THEN <<>>
    ELSE IF Head(log).generated.ok THEN AllFailures(Tail(log))
    ELSE Head(log).generated.error \o AllFailures(Tail(log))

C11_EveryArityRuns ==
    (pc = "done" /\ SomePassFailed) =>
        /\ { passes[k].arity : k \in 1..Len(passes) } = { n \in 0..(count - 1) : n # 1 }
        /\ ~result.ok
        /\ result.error = AllFailures(passes)

(***************************************************************************)
(* C11 amended.  The first arity pass that fails ends the loop: it is the  *)
(* last pass that ran, no later arity is tried, and the reported failure   *)
(* (and the diagnostics emitted) are the ones of that single pass.         *)
(***************************************************************************)
C11_StopsAtFirstFailure ==
    \A k \in 1..Len(passes) :
        ~passes[k].generated.ok =>
            /\ k = Len(passes)
            /\ i = passes[k].arity
            /\ pc \in {"returned", "done"}
            /\ result = passes[k].generated
            /\ pc = "done" => output = to_compile_error(passes[k].generated.error)

\* three arities in the range, the first one failed and the other two never ran
C11_Witness ==
    /\ pc = "done"
    /\ count = 4
    /\ Len(passes) = 1
    /\ passes[1].arity = 0
    /\ ~passes[1].generated.ok
    /\ passes[1].generated.error[1].message = "unexpected token"

(***************************************************************************)
(* Vocabulary of the properties of the diagnostics.                        *)
(***************************************************************************)
\* a for_tuples! invocation that does not parse
IsMalformed(mac) == mac.path = "for_tuples" /\ ~IsMarker(mac)

\* the spans of the malformed markers of a block, in the order of the statements
RECURSIVE MalformedInBlock(_)
MalformedInBlock(block) ==
    IF block = <<>> THEN <<>>
    ELSE (IF /\ Head(block).kind \in {"StmtExpr", "StmtSemi"}
             /\ Head(block).expr.kind = "Macro"
             /\ IsMalformed(Head(block).expr.mac)
          THEN << Head(block).expr.mac.span >> ELSE <<>>)
         \o MalformedInBlock(Tail(block))

\* the spans of the malformed markers of the items, in the order of the traversal
RECURSIVE MalformedInItems(_)
MalformedInItems(items) ==
    IF items = <<>> THEN <<>>
    ELSE (CASE Head(items).kind = "Macro" ->
                    IF IsMalformed(Head(items).mac) THEN << Head(items).mac.span >> ELSE <<>>
            [] Head(items).kind = "Method" -> MalformedInBlock(Head(items).block)
            [] Head(items).kind = "Type" ->
                    IF Head(items).ty.kind = "Macro" /\ IsMalformed(Head(items).ty.mac)
                    THEN << Head(items).ty.mac.span >> ELSE <<>>
            [] OTHER -> <<>>)
         \o MalformedInItems(Tail(items))

(***************************************************************************)
(* C12.  In a pass over a template with m >= 1 malformed markers,          *)
(* generate_implementation fails with one merged error that holds each of  *)
(* the m diagnostics once, the first one met by the traversal leading and  *)
(* the others following.  The error the others are combined into is the    *)
(* one popped from the end of the list, the last one met: the statement    *)
(* fails as soon as m >= 2.                                                *)
(***************************************************************************)
C12_FirstDiagnosticLeads ==
    \A k \in 1..Len(passes) :
        LET malformed == MalformedInItems(trait_impl.items)
        IN  (trait_impl.trait_.some /\ malformed # <<>>) =>
                /\ ~passes[k].generated.ok
                /\ Len(passes[k].generated.error) = Len(malformed)
                /\ \A n \in 1..Len(malformed) :
                      Cardinality({ e \in 1..Len(passes[k].generated.error) :
                                      passes[k].generated.error[e].span = malformed[n] }) = 1
                /\ passes[k].generated.error[1].span = malformed[1]

(***************************************************************************)
(* Vocabulary of the properties of the generated items.                    *)
(***************************************************************************)
\* whether a for_tuples! invocation stands in the expression
RECURSIVE InvocationInExpr(_)
InvocationInExpr(e) ==
    CASE e.kind = "Macro" -> e.mac.path = "for_tuples"
      [] e.kind = "Call" ->
            \/ InvocationInExpr(e.func)
            \/ \E k \in 1..Len(e.args) : InvocationInExpr(e.args[k])
      [] e.kind = "MethodCall" ->
            \/ InvocationInExpr(e.receiver)
            \/ \E k \in 1..Len(e.args) : InvocationInExpr(e.args[k])
      [] OTHER -> FALSE

InvocationInStmt(stmt) ==
    IF stmt.kind = "Local" THEN InvocationInExpr(stmt.init) ELSE InvocationInExpr(stmt.expr)

\* whether a for_tuples! invocation stands in the impl item
InvocationInItem(item) ==
    CASE item.kind = "Macro" -> item.mac.path = "for_tuples"
      [] item.kind = "Type" -> item.ty.kind = "Macro" /\ item.ty.mac.path = "for_tuples"
      [] item.kind = "Method" -> \E n \in 1..Len(item.block) : InvocationInStmt(item.block[n])
      [] OTHER -> FALSE

(***************************************************************************)
(* C13.  After a pass that succeeded no for_tuples! invocation remains in  *)
(* the generated implementation, wherever the markers of the template      *)
(* stand: impl item, statement, type, or expression inside a statement     *)
(* (initializer of a let, argument of a call).  fold_stmt looks only at    *)
(* the expression that is the whole statement; a marker deeper in a        *)
(* statement goes through the default fold_expr and is kept as written:    *)
(* the statement fails.                                                    *)
(***************************************************************************)
C13_NoInvocationRemains ==
    \A block \in GeneratedBlocks :
        \A k \in 1..Len(block.items) : ~InvocationInItem(block.items[k])

(***************************************************************************)
(* Vocabulary of the properties of the receiver flag.                      *)
(***************************************************************************)
At(at, flag) == [at |-> at, flag |-> flag]

\* whether the first parameter of the method is a receiver
ReceiverFirst(item) == item.sig.inputs # <<>> /\ item.sig.inputs[1] = "Receiver"

\* the points of the traversal of the items with the value the flag is expected
\* to have at each: off at an item and at a signature, the receiver of the
\* method in its block and at each of its statements, off again once left
RECURSIVE FlagsOver(_)
FlagsOver(items) ==
    IF items = <<>> THEN <<>>
    ELSE (IF Head(items).kind = "Method"
          THEN << At("item", FALSE), At("signature", FALSE),
                  At("block", ReceiverFirst(Head(items))) >>
               \o [n \in 1..Len(Head(items).block) |-> At("stmt", ReceiverFirst(Head(items)))]
               \o << At("left", FALSE) >>
          ELSE << At("item", FALSE) >>)
         \o FlagsOver(Tail(items))

\* Tuple.method()
CallOn(receiver) == MethodCall(receiver, <<>>)

(***************************************************************************)
(* C14.  Over any sequence of impl items the receiver flag is off at the   *)
(* start of the pass, at every item and while a signature is traversed; in *)
(* the block of a method and at each of its statements it is on exactly    *)
(* when the first parameter of the method is a receiver; it is back to its *)
(* former value once the method is left and off at the end of the pass.    *)
(* A statement marker is expanded with the flag of its method: a call on   *)
(* the placeholder becomes a call on self.i in a method with a receiver    *)
(* and a call on the tuple element T_i in a method without one.            *)
(***************************************************************************)
C14_ReceiverFlag ==
    \A k \in 1..Len(passes) :
        /\ passes[k].to_tuple.trace = << At("start", FALSE) >> \o FlagsOver(trait_impl.items)
        /\ ~passes[k].to_tuple.has_self_parameter
        /\ passes[k].generated.ok =>
              \A place \in { p \in MarkerPlaces : Len(p) = 2 } :
                  \A c \in 0..(passes[k].arity - 1) : \A j \in 1..Len(MarkerAt(place).stmts) :
                      MarkerAt(place).stmts[j].expr = CallOn(Path(<<Placeholder>>)) =>
                          CopyStmt(RepetitionIn(passes[k].generated.value[1], place),
                                   place, c, j).expr
                              = IF InReceiverMethod(place)
                                THEN CallOn(SelfField(c))
                                ELSE CallOn(Path(<< generate_tuple_element_ident(c) >>))

\* a method with a receiver followed by a method without one, both holding the
\* marker of a call on the placeholder, expanded for three tuple elements
C14_Witness ==
    /\ pc = "done"
    /\ result.ok
    /\ Len(trait_impl.items) = 3
    /\ ReceiverFirst(trait_impl.items[1])
    /\ ~ReceiverFirst(trait_impl.items[2])
    /\ {<<1, 1>>, <<2, 1>>} \subseteq MarkerPlaces
    /\ \E k \in 1..Len(passes) :
          /\ passes[k].arity = 3
          /\ passes[k].to_tuple.trace[4] = At("block", TRUE)
          /\ passes[k].to_tuple.trace[6] = At("left", FALSE)
          /\ passes[k].to_tuple.trace[9] = At("block", FALSE)
          /\ CopyStmt(RepetitionIn(passes[k].generated.value[1], <<1, 1>>), <<1, 1>>, 2, 1).expr
                = CallOn(SelfField(2))
          /\ CopyStmt(RepetitionIn(passes[k].generated.value[1], <<2, 1>>), <<2, 1>>, 2, 1).expr
                = CallOn(Path(<< generate_tuple_element_ident(2) >>))

(***************************************************************************)
(* Vocabulary of the properties of the generics.                           *)
(***************************************************************************)
\* the positions of the list (type parameters or where predicates) that name the identifier
Naming(list, ident) == { n \in 1..Len(list) : list[n].ident = ident }

\* the identifier with the bound, as a type parameter or as a where predicate
Bounded(ident, bound) == [ident |-> ident, bounds |-> <<bound>>]

\* the where path: one predicate per identifier, the parameters as they were
WherePath(before, after, tuples, bound) ==
    /\ after.params = before.params
    /\ after.where_clause = before.where_clause \o [k \in 1..Len(tuples) |-> Bounded(tuples[k], bound)]

\* the parameter path: one new bounded parameter per identifier, no predicate
ParamPath(before, after, tuples, bound) ==
    /\ after.where_clause = before.where_clause
    /\ after.params = before.params \o [k \in 1..Len(tuples) |-> Bounded(tuples[k], bound)]

\* the identifier is a type parameter once and the bound is on it or in one predicate
DeclaredOnceWithBound(generics, ident, bound) ==
    /\ Cardinality(Naming(generics.params, ident)) = 1
    /\ \/ \E n \in Naming(generics.params, ident) : generics.params[n].bounds = <<bound>>
       \/ \E n \in Naming(generics.where_clause, ident) : generics.where_clause[n].bounds = <<bound>>

(***************************************************************************)
(* C15.  Whatever the tuple element identifiers and the type parameters    *)
(* the template declares, add_tuple_element_generics takes the where path  *)
(* when the identifiers are declared already and the parameter path when   *)
(* they are not, and afterwards every tuple element identifier of the pass *)
(* is a type parameter exactly once and carries the bound.  The test of    *)
(* the code is that SOME identifier is declared: when only a part of them  *)
(* is, the where path leaves the others undeclared: the statement fails.   *)
(***************************************************************************)
C15_DeclaredExactlyOnce ==
    \A k \in 1..Len(passes) :
        passes[k].generated.ok =>
            LET tuples == SubSeq(tuple_elements, 1, passes[k].arity)
                before == trait_impl.generics
                after == passes[k].generated.value[1].generics
                bound == trait_impl.trait_.value
            IN  /\ IF \A n \in 1..Len(tuples) : Naming(before.params, tuples[n]) # {}
                   THEN WherePath(before, after, tuples, bound)
                   ELSE ParamPath(before, after, tuples, bound)
                /\ \A n \in 1..Len(tuples) : DeclaredOnceWithBound(after, tuples[n], bound)

====
